---- MODULE Spec2Model ----
(***************************************************************************)
(* A model of tf/edgeml/graph/protoNN.py: the ProtoNN parameter store      *)
(* (__init__, __initWBZ, __initGamma, __validateInit), the memoised        *)
(* forward computation (__call__) and the accessors.                       *)
(*                                                                         *)
(* Numbers.  W, B, Z, X, Y and gamma hold integers.  tf.exp is modelled in *)
(* fixed point with three decimals: exp(x) is round(1000 * e^x), so the    *)
(* kernel weights, the scores and the accuracy are thousandths and the     *)
(* real number 1.0 is written One.                                         *)
(*                                                                         *)
(* Attributes.  __nscope, __inW, __inB, __inZ and __inGamma are read only   *)
(* inside __init__; they are the constructor arguments of the model and    *)
(* are not kept in the object.                                             *)
(*                                                                         *)
(* Python values.  An attribute that was never assigned is Absent, the     *)
(* value None is None, any other value v is Some(v); a tensor built by     *)
(* __call__ is Obj(id, v), id being the identity of the Python object.     *)
(***************************************************************************)
EXTENDS Integers, Sequences, FiniteSets, TLC

\* ------------------------------------------------------------------ bounds
\* hyperparameters d, d_cap, m, L and the dimensions of supplied matrices
MaxDim == 2
\* batch size n of X and Y
MaxN == 2
\* gamma ranges over -MaxGamma .. MaxGamma
MaxGamma == 1
\* the input families (matrices, X, Y) are indexed by 0 .. MaxSeed
MaxSeed == 1
\* threads calling __call__ concurrently (specification SpecConc)
NThreads == 2

Dims == 1..MaxDim
Gammas == (0 - MaxGamma)..MaxGamma
Seeds == 0..MaxSeed
Threads == 1..NThreads

\* --------------------------------------------------------- Python values
Absent == [tag |-> "absent"]
None == [tag |-> "none"]
Some(v) == [tag |-> "val", val |-> v]
Obj(id, v) == [tag |-> "val", id |-> id, val |-> v]
IsSet(a) == a.tag = "val"

Return(op, v) == [op |-> op, kind |-> "return", val |-> v]
Raise(op, e) == [op |-> op, kind |-> "raise", err |-> e]

\* ------------------------------------------------------------ tensor ops
RECURSIVE SumSeq(_)
SumSeq(s) == IF s = <<>> THEN 0 ELSE Head(s) + SumSeq(Tail(s))

Max2(a, b) == IF a >= b THEN a ELSE b

shape(M) == <<Len(M), Len(M[1])>>

shape3(T) == <<Len(T), Len(T[1]), Len(T[1][1])>>

\* tf.matmul(A, C) of rank-2 tensors
matmul(A, C) ==
    [i \in 1..Len(A) |->
        [k \in 1..Len(C[1]) |->
            SumSeq([a \in 1..Len(C) |-> A[i][a] * C[a][k]])]]

\* the row-major element list of a rank-2 tensor
flat(M) ==
    LET c == Len(M[1])
    IN [p \in 1..(Len(M) * c) |-> M[((p - 1) \div c) + 1][((p - 1) % c) + 1]]

\* tf.reshape(M, dim) of a rank-2 tensor to rank 3; one entry of dim may be -1
reshape(M, dim) ==
    LET f == flat(M)
        prod == (IF dim[1] = 0 - 1 THEN 1 ELSE dim[1])
              * (IF dim[2] = 0 - 1 THEN 1 ELSE dim[2])
              * (IF dim[3] = 0 - 1 THEN 1 ELSE dim[3])
        full == [x \in 1..3 |-> IF dim[x] = 0 - 1 THEN Len(f) \div prod ELSE dim[x]]
    IN [i \in 1..full[1] |->
         [j \in 1..full[2] |->
           [k \in 1..full[3] |->
              f[((i - 1) * full[2] + (j - 1)) * full[3] + k]]]]

\* Broadcasting of rank-3 tensors: an axis of length 1 is stretched to the
\* other operand's length.  bdim is the length of the result's axis, bix the
\* place an operand with axis length s is read at.
bdim(sa, sc) == Max2(sa, sc)

bix(s, i) == IF s = 1 THEN 1 ELSE i

\* A - C, elementwise with broadcasting
broadcastSub(A, C) ==
    LET sa == shape3(A)
        sc == shape3(C)
    IN [i \in 1..bdim(sa[1], sc[1]) |->
         [j \in 1..bdim(sa[2], sc[2]) |->
           [k \in 1..bdim(sa[3], sc[3]) |->
              A[bix(sa[1], i)][bix(sa[2], j)][bix(sa[3], k)]
            - C[bix(sc[1], i)][bix(sc[2], j)][bix(sc[3], k)]]]]

\* tf.multiply(A, C), elementwise with broadcasting
broadcastMul(A, C) ==
    LET sa == shape3(A)
        sc == shape3(C)
    IN [i \in 1..bdim(sa[1], sc[1]) |->
         [j \in 1..bdim(sa[2], sc[2]) |->
           [k \in 1..bdim(sa[3], sc[3]) |->
              A[bix(sa[1], i)][bix(sa[2], j)][bix(sa[3], k)]
            * C[bix(sc[1], i)][bix(sc[2], j)][bix(sc[3], k)]]]]

\* variant of pow2: the difference is not squared
pow2As_identity(x) == x

\* tf.pow(x, 2) on one element
pow2(x) == x * x

\* tf.pow(T, 2), elementwise
pow3(T) ==
    [i \in 1..Len(T) |-> [j \in 1..Len(T[i]) |-> [k \in 1..Len(T[i][j]) |-> pow2(T[i][j][k])]]]

\* c * T for a scalar c
scale3(c, T) ==
    [i \in 1..Len(T) |-> [j \in 1..Len(T[i]) |-> [k \in 1..Len(T[i][j]) |-> c * T[i][j][k]]]]

\* tf.reduce_sum(T, 1, keepdims=True): [a, b, c] -> [a, 1, c]
reduce_sum_1_keep(T) ==
    [i \in 1..Len(T) |->
       <<[k \in 1..Len(T[i][1]) |-> SumSeq([j \in 1..Len(T[i]) |-> T[i][j][k]])]>>]

\* tf.reduce_sum(T, 2): [a, b, c] -> [a, b]
reduce_sum_2(T) ==
    [i \in 1..Len(T) |-> [j \in 1..Len(T[i]) |-> SumSeq(T[i][j])]]

\* round(1000 * e^x) for x = 0, -1, -2, ...; 0 beyond the table (underflow)
ExpNegTable == <<1000, 368, 135, 50, 18, 7, 2, 1>>
\* round(1000 * e^x) for x = 1, 2, ...; saturating beyond the table
ExpPosTable == <<2718, 7389, 20086, 54598>>
One == ExpNegTable[1]

\* tf.exp on one element
exp(x) ==
    IF x <= 0
    THEN IF 0 - x < Len(ExpNegTable) THEN ExpNegTable[(0 - x) + 1] ELSE 0
    ELSE IF x <= Len(ExpPosTable) THEN ExpPosTable[x] ELSE ExpPosTable[Len(ExpPosTable)]

\* tf.exp(T), elementwise
exp3(T) ==
    [i \in 1..Len(T) |-> [j \in 1..Len(T[i]) |-> [k \in 1..Len(T[i][j]) |-> exp(T[i][j][k])]]]

\* tf.argmax over one row: the smallest index of a largest entry, from 0
argmaxRow(r) ==
    (CHOOSE l \in 1..Len(r) :
        /\ \A x \in 1..Len(r) : r[x] <= r[l]
        /\ \A x \in 1..(l - 1) : r[x] < r[l]) - 1

\* tf.argmax(M, 1)
argmax(M) == [i \in 1..Len(M) |-> argmaxRow(M[i])]

\* whether tf.equal accepts rank-1 operands of these lengths
compatible(p, t) == Len(p) = Len(t) \/ Len(p) = 1 \/ Len(t) = 1

\* tf.equal (broadcasting) then tf.cast(., float32), on rank-1 tensors
equalCast(p, t) ==
    [i \in 1..Max2(Len(p), Len(t)) |->
        IF p[IF Len(p) = 1 THEN 1 ELSE i] = t[IF Len(t) = 1 THEN 1 ELSE i] THEN One ELSE 0]

\* variant of reduce_mean: the sum is not divided by the length
reduce_meanAs_sum(v) == SumSeq(v)

\* tf.reduce_mean of a rank-1 tensor
reduce_mean(v) == SumSeq(v) \div Len(v)

\* variant of kernelCoef: gamma enters once
kernelCoefAs_linear(g) == (0 - 1) * g

\* the coefficient (-1 * gamma * gamma), evaluated left to right
kernelCoef(g) == ((0 - 1) * g) * g

\* __call__, lines 112-131: the tensors built from the parameters and X
forward(W, B, Z, g, X) ==
    LET WX0 == matmul(X, W)
        WX == reshape(WX0, <<0 - 1, shape(WX0)[2], 1>>)
        B3 == reshape(B, <<1, shape(B)[1], 0 - 1>>)
        diff == broadcastSub(B3, WX)
        l2 == reduce_sum_1_keep(pow3(diff))
        gammal2sim == scale3(kernelCoef(g), l2)
        M == exp3(gammal2sim)
        Z3 == reshape(Z, <<1>> \o shape(Z))
        y == reduce_sum_2(broadcastMul(Z3, M))
    IN [l2sim |-> l2, y |-> y, predictions |-> argmax(y)]

\* __call__, lines 133-136: the accuracy of predictions against labels Y
accuracyOf(pred, Y) == reduce_mean(equalCast(pred, argmax(Y)))

\* ---------------------------------------------------------------- inputs
\* The matrices handed to the constructor (and the values the random
\* initialisers draw), the batches X and the label matrices Y are taken from
\* families indexed by a seed.  Seed 0 is the case W = I, B = 0, Z = [[1],[0]],
\* X = 0.
entryW(s, i, j) == IF s = 0 THEN (IF i = j THEN 1 ELSE 0) ELSE ((i * s + j) % 3) - 1

entryB(s, i, j) == IF s = 0 THEN 0 ELSE (i + s * j) % 2

entryZ(s, i, j) == IF s = 0 THEN (IF i = j THEN 1 ELSE 0) ELSE ((s * i + 2 * j) % 3) - 1

entryX(s, i, j) == IF s = 0 THEN 0 ELSE ((i + j + s) % 3) - 1

matrixW(r, c, s) == [i \in 1..r |-> [j \in 1..c |-> entryW(s, i, j)]]

matrixB(r, c, s) == [i \in 1..r |-> [j \in 1..c |-> entryB(s, i, j)]]

matrixZ(r, c, s) == [i \in 1..r |-> [j \in 1..c |-> entryZ(s, i, j)]]

matrixX(r, c, s) == [i \in 1..r |-> [j \in 1..c |-> entryX(s, i, j)]]

\* a one-hot label matrix of shape [n, L]: row i marks class (i + s) % L
oneHot(n, nL, s) == [i \in 1..n |-> [l \in 1..nL |-> IF l - 1 = (i + s) % nL THEN 1 ELSE 0]]

\* the (X, Y) arguments of __call__ for a batch of n rows: X of shape [n, d],
\* Y omitted (None) or of shape [n, L]
Batches(n, nd, nL) ==
    UNION {{<<matrixX(n, nd, s), None>>,
            <<matrixX(n, nd, s), Some(oneHot(n, nL, s))>>} : s \in Seeds}

Shapes == Dims \X Dims

\* A constructor call: the hyperparameters, gamma, and for each of W, B, Z
\* either None (not supplied) or the shape of the supplied matrix.
Args(hd, hc, hm, hL, g, s, sW, sB, sZ) ==
    [d |-> hd, d_cap |-> hc, m |-> hm, L |-> hL, gamma |-> g, seed |-> s,
     W |-> IF sW = None THEN None ELSE Some(matrixW(sW.val[1], sW.val[2], s)),
     B |-> IF sB = None THEN None ELSE Some(matrixB(sB.val[1], sB.val[2], s)),
     Z |-> IF sZ = None THEN None ELSE Some(matrixZ(sZ.val[1], sZ.val[2], s))]

\* constructor calls whose matrices are not supplied or have the declared
\* shapes, with gamma in G
ValidArgs(G) ==
    {Args(hd, hc, hm, hL, g, s,
          IF o[1] THEN Some(<<hd, hc>>) ELSE None,
          IF o[2] THEN Some(<<hc, hm>>) ELSE None,
          IF o[3] THEN Some(<<hL, hm>>) ELSE None) :
        hd \in Dims, hc \in Dims, hm \in Dims, hL \in Dims,
        g \in G, s \in Seeds, o \in [1..3 -> BOOLEAN]}

\* constructor calls with one matrix supplied in any shape and the other two
\* not supplied
OneSuppliedArgs ==
    {Args(hd, hc, hm, hL, 1, 0,
          IF w = 1 THEN Some(x) ELSE None,
          IF w = 2 THEN Some(x) ELSE None,
          IF w = 3 THEN Some(x) ELSE None) :
        hd \in Dims, hc \in Dims, hm \in Dims, hL \in Dims, w \in 1..3, x \in Shapes}

\* constructor calls with the three matrices supplied in one common shape
CommonShapeArgs ==
    {Args(hd, hc, hm, hL, 1, 0, Some(x), Some(x), Some(x)) :
        hd \in Dims, hc \in Dims, hm \in Dims, hL \in Dims, x \in Shapes}

\* the constructor calls of specification Spec
CtorArgs == ValidArgs({1}) \cup OneSuppliedArgs \cup CommonShapeArgs

\* ----------------------------------------------------------------- state
VARIABLES
    inst,     \* "new": not constructed; "ok": __init__ returned; "failed": __init__
              \* raised (the object then exists with the attributes assigned up to
              \* the failing assertion, and its methods can still be called by
              \* whoever holds it)
    self,     \* the attributes of the ProtoNN object
    nextId,   \* the number of output tensors built so far (identities 1, 2, ...)
    ret,      \* the outcome of the last operation: what it returned or raised
    hist,     \* history: the first build's X and Y and its output, and whether
              \* any __call__ that passed the validity check was given a Y
    thr       \* per thread: its position in __call__, its arguments and locals

vars == <<inst, self, nextId, ret, hist, thr>>

NoObject == [tag |-> "absent"]

NoHist == [firstX |-> None, firstY |-> None, firstOut |-> None, everY |-> FALSE, rel |-> "none"]

\* no operation has run yet
NoRet == [op |-> "none", kind |-> "none"]

IdleThread == [pc |-> "idle", X |-> None, Y |-> None, y |-> None, ret |-> NoRet]

\* ----------------------------------------------------------- construction
\* __initWBZ: a supplied matrix is used as it is, a missing one is drawn by
\* the initialiser at the declared shape
initWBZ(a) ==
    [W |-> IF a.W = None THEN matrixW(a.d, a.d_cap, a.seed) ELSE a.W.val,
     B |-> IF a.B = None THEN matrixB(a.d_cap, a.m, a.seed) ELSE a.B.val,
     Z |-> IF a.Z = None THEN matrixZ(a.L, a.m, a.seed) ELSE a.Z.val]

\* __initGamma: gamma bound as a constant
initGamma(a) == a.gamma

\* variant of validateInit: the flag is set before the assertions run
validateInitAs_flagFirst(W, B, Z, hd, hc, hm, hL) ==
    [validInit |-> TRUE,
     raised |-> ~(/\ shape(W)[1] = hd /\ shape(W)[2] = hc
                  /\ shape(B)[1] = hc /\ shape(B)[2] = hm
                  /\ shape(Z)[1] = hL /\ shape(Z)[2] = hm)]

\* variant of validateInit: the assertion on Z.shape[1] is missing
validateInitAs_noZcols(W, B, Z, hd, hc, hm, hL) ==
    LET pass == /\ shape(W)[1] = hd /\ shape(W)[2] = hc
                /\ shape(B)[1] = hc /\ shape(B)[2] = hm
                /\ shape(Z)[1] = hL
    IN [validInit |-> pass, raised |-> ~pass]

\* __validateInit: the flag is cleared, the six assertions run in order, and
\* the flag is set when none of them raised
validateInit(W, B, Z, hd, hc, hm, hL) ==
    LET pass == /\ shape(W)[1] = hd
                /\ shape(W)[2] = hc
                /\ shape(B)[1] = hc
                /\ shape(B)[2] = hm
                /\ shape(Z)[1] = hL
                /\ shape(Z)[2] = hm
    IN [validInit |-> pass, raised |-> ~pass]

\* __init__: the object and the outcome of the constructor call with arguments a.
\* Lines 44-46 run only when __validateInit returned.
construct(a) ==
    LET wbz == initWBZ(a)
        v == validateInit(wbz.W, wbz.B, wbz.Z, a.d, a.d_cap, a.m, a.L)
        cache == IF v.raised THEN Absent ELSE None
    IN [self |-> [d |-> a.d, d_cap |-> a.d_cap, m |-> a.m, L |-> a.L,
                  W |-> wbz.W, B |-> wbz.B, Z |-> wbz.Z, gamma |-> initGamma(a),
                  validInit |-> v.validInit,
                  protoNNOut |-> cache, predictions |-> cache, accuracy |-> cache,
                  l2sim |-> Absent],
        inst |-> IF v.raised THEN "failed" ELSE "ok",
        ret |-> IF v.raised THEN Raise("init", "DimensionMismatch")
                            ELSE Return("init", None)]

init(a) ==
    /\ inst = "new"
    /\ LET c == construct(a)
       IN /\ self' = c.self
          /\ inst' = c.inst
          /\ ret' = c.ret
    /\ UNCHANGED <<nextId, hist, thr>>

\* ------------------------------------------------------------- accessors
getHyperParams ==
    /\ inst # "new"
    /\ ret' = Return("getHyperParams", <<self.d, self.d_cap, self.m, self.L, self.gamma>>)
    /\ UNCHANGED <<inst, self, nextId, hist, thr>>

getModelMatrices ==
    /\ inst # "new"
    /\ ret' = Return("getModelMatrices", <<self.W, self.B, self.Z, self.gamma>>)
    /\ UNCHANGED <<inst, self, nextId, hist, thr>>

getPredictionsOp ==
    /\ inst # "new"
    /\ ret' = IF self.predictions = Absent
              THEN Raise("getPredictionsOp", "AttributeError")
              ELSE Return("getPredictionsOp", self.predictions)
    /\ UNCHANGED <<inst, self, nextId, hist, thr>>

\* variant of getAccuracyOp: the assertion is missing
getAccuracyOpAs_noAssert ==
    /\ inst # "new"
    /\ ret' = IF self.accuracy = Absent
              THEN Raise("getAccuracyOp", "AttributeError")
              ELSE Return("getAccuracyOp", self.accuracy)
    /\ UNCHANGED <<inst, self, nextId, hist, thr>>

getAccuracyOp ==
    /\ inst # "new"
    /\ ret' = IF self.accuracy = Absent
              THEN Raise("getAccuracyOp", "AttributeError")
              ELSE IF self.accuracy = None
              THEN Raise("getAccuracyOp", "AccuracyNotAvailable")
              ELSE Return("getAccuracyOp", self.accuracy)
    /\ UNCHANGED <<inst, self, nextId, hist, thr>>

\* -------------------------------------------------------------- __call__
\* variant of cached: the cache is never found
cachedAs_never(out) == FALSE

\* line 109: self.protoNNOut is not None
cached(out) == out # None

\* variant of cachedReturn: a cached call given a Y assigns the accuracy
cachedReturnAs_accuracy(obj, Y) ==
    IF Y = None THEN obj
    ELSE [obj EXCEPT !.accuracy = Some(accuracyOf(obj.predictions.val, Y.val))]

\* lines 109-110: the object after a call that found protoNNOut set
cachedReturn(obj, Y) == obj

\* lines 112-137: the object after a call that builds output y (identity id)
\* from X and Y
built(obj, id, X, Y) ==
    LET f == forward(obj.W, obj.B, obj.Z, obj.gamma, X)
    IN [obj EXCEPT
          !.l2sim = Some(f.l2sim),
          !.protoNNOut = Obj(id, f.y),
          !.predictions = Some(f.predictions),
          !.accuracy = IF Y = None THEN @ ELSE Some(accuracyOf(f.predictions, Y.val))]

\* __call__(X, Y) run from entry to return without interruption
call(X, Y) ==
    /\ inst # "new"
    /\ IF self.validInit # TRUE
       THEN /\ ret' = Raise("call", "UninitializedModel")
            /\ UNCHANGED <<self, nextId, hist>>
       ELSE IF cached(self.protoNNOut)
       THEN /\ self' = cachedReturn(self, Y)
            /\ ret' = Return("call", self.protoNNOut)
            /\ hist' = [hist EXCEPT !.everY = @ \/ Y # None,
                                    !.rel = IF hist.firstX = Some(X) THEN "same" ELSE "diff"]
            /\ UNCHANGED nextId
       ELSE /\ self' = built(self, nextId + 1, X, Y)
            /\ nextId' = nextId + 1
            /\ ret' = Return("call", self'.protoNNOut)
            /\ hist' = IF hist.firstOut = None
                       THEN [firstX |-> Some(X), firstY |-> Y, firstOut |-> self'.protoNNOut,
                             everY |-> Y # None, rel |-> "first"]
                       ELSE [hist EXCEPT !.everY = @ \/ Y # None,
                                         !.rel = IF hist.firstX = Some(X) THEN "same" ELSE "diff"]
    /\ UNCHANGED <<inst, thr>>

Init ==
    /\ inst = "new"
    /\ self = NoObject
    /\ nextId = 0
    /\ ret = NoRet
    /\ hist = NoHist
    /\ thr = [t \in Threads |-> IdleThread]

Next ==
    \/ \E a \in CtorArgs : init(a)
    \/ /\ inst # "new"
       /\ \E n \in 1..MaxN : \E xy \in Batches(n, self.d, self.L) : call(xy[1], xy[2])
    \/ getHyperParams
    \/ getModelMatrices
    \/ getPredictionsOp
    \/ getAccuracyOp

Spec == Init /\ [][Next]_vars

\* ------------------------------------------------- the forward computation
\* The first __call__ of every validly constructed instance, over all
\* hyperparameters, gammas and seeds.
firstCall(X, Y) ==
    /\ self.protoNNOut = None
    /\ call(X, Y)

InitFwd ==
    /\ \E a \in ValidArgs(Gammas) :
         /\ self = construct(a).self
         /\ inst = construct(a).inst
         /\ ret = construct(a).ret
    /\ nextId = 0
    /\ hist = NoHist
    /\ thr = [t \in Threads |-> IdleThread]

NextFwd ==
    \E n \in 1..MaxN : \E xy \in Batches(n, self.d, self.L) : firstCall(xy[1], xy[2])

SpecFwd == InitFwd /\ [][NextFwd]_vars

\* ---------------------------------------------- __call__ on several threads
\* The interpreter may switch threads between any two statements of
\* __call__; the method takes no lock.  Each thread calls __call__ once.

\* lines 108-110: the validity assertion and the test of the cache
t_enter(t, X, Y) ==
    /\ thr[t].pc = "idle"
    /\ IF self.validInit # TRUE
       THEN thr' = [thr EXCEPT ![t].pc = "done",
                               ![t].ret = Raise("call", "UninitializedModel")]
       ELSE IF cached(self.protoNNOut)
       THEN thr' = [thr EXCEPT ![t].pc = "done",
                               ![t].ret = Return("call", self.protoNNOut)]
       ELSE thr' = [thr EXCEPT ![t].pc = "build", ![t].X = Some(X), ![t].Y = Y]
    /\ UNCHANGED <<inst, self, nextId, ret, hist>>

\* lines 112-129: the tensors are built; self.l2sim is assigned on the way
t_build(t) ==
    /\ thr[t].pc = "build"
    /\ LET o == built(self, nextId + 1, thr[t].X.val, thr[t].Y)
       IN /\ self' = [self EXCEPT !.l2sim = o.l2sim]
          /\ thr' = [thr EXCEPT ![t].pc = "store", ![t].y = o.protoNNOut]
    /\ nextId' = nextId + 1
    /\ UNCHANGED <<inst, ret, hist>>

\* line 130: self.protoNNOut = y
t_store(t) ==
    /\ thr[t].pc = "store"
    /\ self' = [self EXCEPT !.protoNNOut = thr[t].y]
    /\ thr' = [thr EXCEPT ![t].pc = "pred"]
    /\ UNCHANGED <<inst, nextId, ret, hist>>

\* line 131: self.predictions = tf.argmax(y, 1)
t_pred(t) ==
    /\ thr[t].pc = "pred"
    /\ self' = [self EXCEPT !.predictions = Some(argmax(thr[t].y.val))]
    /\ thr' = [thr EXCEPT ![t].pc = "acc"]
    /\ UNCHANGED <<inst, nextId, ret, hist>>

\* lines 132-137: the accuracy, from self.predictions, when Y was given;
\* tf.equal raises when the two lengths cannot be broadcast
t_acc(t) ==
    /\ thr[t].pc = "acc"
    /\ IF thr[t].Y = None
       THEN /\ thr' = [thr EXCEPT ![t].pc = "ret"]
            /\ UNCHANGED self
       ELSE IF compatible(self.predictions.val, argmax(thr[t].Y.val))
       THEN /\ self' = [self EXCEPT
                          !.accuracy = Some(accuracyOf(self.predictions.val, thr[t].Y.val))]
            /\ thr' = [thr EXCEPT ![t].pc = "ret"]
       ELSE /\ thr' = [thr EXCEPT ![t].pc = "done", ![t].ret = Raise("call", "ValueError")]
            /\ UNCHANGED self
    /\ UNCHANGED <<inst, nextId, ret, hist>>

\* line 138: return y
t_return(t) ==
    /\ thr[t].pc = "ret"
    /\ thr' = [thr EXCEPT ![t].pc = "done", ![t].ret = Return("call", thr[t].y)]
    /\ UNCHANGED <<inst, self, nextId, ret, hist>>

\* the constructor calls of specification SpecConc: one shape, all gammas and seeds
ConcArgs ==
    {Args(MaxDim, MaxDim, 1, MaxDim, g, s,
          Some(<<MaxDim, MaxDim>>), Some(<<MaxDim, 1>>), Some(<<MaxDim, 1>>)) :
        g \in Gammas, s \in Seeds}

InitConc ==
    /\ \E a \in ConcArgs :
         /\ self = construct(a).self
         /\ inst = construct(a).inst
         /\ ret = construct(a).ret
    /\ nextId = 0
    /\ hist = NoHist
    /\ thr = [t \in Threads |-> IdleThread]

NextConc ==
    \E t \in Threads :
        \/ \E n \in 1..MaxN : \E xy \in Batches(n, self.d, self.L) : t_enter(t, xy[1], xy[2])
        \/ t_build(t)
        \/ t_store(t)
        \/ t_pred(t)
        \/ t_acc(t)
        \/ t_return(t)

SpecConc == InitConc /\ [][NextConc]_vars

\* ================================================================ claims
\* the six shape comparisons of the data model, on the object's attributes
SixMatch ==
    /\ Len(self.W) = self.d /\ Len(self.W[1]) = self.d_cap
    /\ Len(self.B) = self.d_cap /\ Len(self.B[1]) = self.m
    /\ Len(self.Z) = self.L /\ Len(self.Z[1]) = self.m

\* how many of the six dimensions differ from the declared ones
Mismatches ==
    (IF Len(self.W) = self.d THEN 0 ELSE 1) + (IF Len(self.W[1]) = self.d_cap THEN 0 ELSE 1)
  + (IF Len(self.B) = self.d_cap THEN 0 ELSE 1) + (IF Len(self.B[1]) = self.m THEN 0 ELSE 1)
  + (IF Len(self.Z) = self.L THEN 0 ELSE 1) + (IF Len(self.Z[1]) = self.m THEN 0 ELSE 1)

\* Every operation records its outcome in ret under its own name, so a step
\* with ret'.op = "f" is a step of operation f.

\* C1: one-shot memoisation.  Once a __call__ has produced an output, the
\* cached protoNNOut is that very object (same identity, same values) in every
\* later state, and every __call__ that returns afterwards returns it, whatever
\* X and Y it was given.
C1_OneShotMemoization ==
    (inst = "ok" /\ hist.firstOut # None) =>
        /\ self.protoNNOut = hist.firstOut
        /\ (ret.op = "call" => ret = Return("call", hist.firstOut))

\* a later __call__ with an X other than the first call's has returned
C1_Witness ==
    /\ inst = "ok"
    /\ hist.rel = "diff"
    /\ ret = Return("call", hist.firstOut)

\* C2 (as claimed): after any call sequence holding a __call__ that was given
\* a Y, the accuracy is cached, so that getAccuracyOp succeeds.
C2_AccuracyAfterAnyY ==
    (inst = "ok" /\ hist.everY) => IsSet(self.accuracy)

\* C3: on a constructed instance that no Y-bearing __call__ has reached,
\* getAccuracyOp raises AccuracyNotAvailable, returns nothing, and leaves the
\* object as it was.
C3_AccuracyNotAvailable ==
    [][(inst = "ok" /\ ~hist.everY /\ ret'.op = "getAccuracyOp") =>
          /\ ret' = Raise("getAccuracyOp", "AccuracyNotAvailable")
          /\ self' = self]_vars

\* getAccuracyOp has raised after a __call__ without Y built the output
C3_Witness ==
    /\ inst = "ok"
    /\ ~hist.everY
    /\ IsSet(self.protoNNOut)
    /\ ret = Raise("getAccuracyOp", "AccuracyNotAvailable")

\* C4: construction raises DimensionMismatch exactly when one or more of the
\* six dimensions differ; then the validity flag is false for good, no output
\* is ever cached and every __call__ raises.  When the six match, construction
\* succeeds with the flag set.
C4_DimensionMismatch ==
    inst # "new" =>
        /\ (Mismatches >= 1) =>
              /\ inst = "failed"
              /\ self.validInit = FALSE
              /\ ~IsSet(self.protoNNOut)
              /\ (ret.op = "init" => ret = Raise("init", "DimensionMismatch"))
              /\ (ret.op = "call" => ret.kind = "raise")
        /\ (Mismatches = 0) =>
              /\ inst = "ok"
              /\ self.validInit = TRUE
              /\ (ret.op = "init" => ret.kind = "return")

\* construction has raised on arguments with exactly one differing dimension
C4_Witness ==
    /\ inst = "failed"
    /\ Mismatches = 1
    /\ ret = Raise("init", "DimensionMismatch")

\* C5 (as claimed): with __call__ running on several threads, the output is
\* built at most once and all calls return the same object.
C5_NoRebuildRace ==
    /\ nextId <= 1
    /\ \A t, u \in Threads :
          (thr[t].pc = "done" /\ thr[u].pc = "done") => thr[t].ret = thr[u].ret

\* C6: the validity flag is true only when the six shape checks hold; while
\* it is false a __call__ raises UninitializedModel and protoNNOut,
\* predictions and accuracy are unset.
C6_ValidityFlag ==
    inst # "new" =>
        /\ (self.validInit = TRUE => SixMatch)
        /\ (self.validInit # TRUE =>
              /\ (ret.op = "call" => ret = Raise("call", "UninitializedModel"))
              /\ ~IsSet(self.protoNNOut)
              /\ ~IsSet(self.predictions)
              /\ ~IsSet(self.accuracy))

\* __call__ has raised UninitializedModel on an object whose construction failed
C6_Witness ==
    /\ inst = "failed"
    /\ self.validInit = FALSE
    /\ ret = Raise("call", "UninitializedModel")

\* C7: sign invariance.  The scores of the first __call__ are those the same
\* W, B, Z and X give with gamma negated.
C7_SignInvariance ==
    IsSet(self.protoNNOut) =>
        self.protoNNOut.val =
            forward(self.W, self.B, self.Z, 0 - self.gamma, hist.firstX.val).y

\* scores were built with a negative gamma that changes them (they differ
\* from the scores gamma = 0 gives)
C7_Witness ==
    /\ IsSet(self.protoNNOut)
    /\ self.gamma < 0
    /\ self.protoNNOut.val # forward(self.W, self.B, self.Z, 0, hist.firstX.val).y

\* C8: the first __call__ on X of shape [n, d] yields scores of shape [n, L]
\* with scores[i][l] = sum_j Z[l][j] * exp(-(gamma^2) * l2sim[i][j]) and
\* l2sim[i][j] = sum_k (B[k][j] - (XW)[i][k])^2, and caches predictions[i], an
\* index in 0..L-1 of a largest score of row i.  For d=2, d_cap=2, m=1, L=2,
\* W=I, B=[[0],[0]], Z=[[1],[0]], gamma=1, X=[[0,0]]: l2sim=0, kernel weight 1,
\* scores=[1,0], predictions=[0].
C8_Example ==
    /\ self.d = 2 /\ self.d_cap = 2 /\ self.m = 1 /\ self.L = 2
    /\ self.W = <<<<1, 0>>, <<0, 1>>>>
    /\ self.B = <<<<0>>, <<0>>>>
    /\ self.Z = <<<<1>>, <<0>>>>
    /\ self.gamma = 1
    /\ hist.firstX = Some(<<<<0, 0>>>>)

C8_Scores ==
    IsSet(self.protoNNOut) =>
        LET X == hist.firstX.val
            n == Len(X)
            y == self.protoNNOut.val
            p == self.predictions.val
            XW(i, k) == SumSeq([a \in 1..self.d |-> X[i][a] * self.W[a][k]])
            l2(i, j) == SumSeq([k \in 1..self.d_cap |->
                            (self.B[k][j] - XW(i, k)) * (self.B[k][j] - XW(i, k))])
            weight(i, j) == exp((0 - (self.gamma * self.gamma)) * l2(i, j))
            score(i, l) == SumSeq([j \in 1..self.m |-> self.Z[l][j] * weight(i, j)])
        IN /\ n >= 1
           /\ Len(X[1]) = self.d
           /\ Len(y) = n
           /\ Len(p) = n
           /\ \A i \in 1..n :
                 /\ Len(y[i]) = self.L
                 /\ \A l \in 1..self.L : y[i][l] = score(i, l)
                 /\ \A j \in 1..self.m : self.l2sim.val[i][1][j] = l2(i, j)
                 /\ p[i] \in 0..(self.L - 1)
                 /\ \A l \in 1..self.L : y[i][l] <= y[i][p[i] + 1]
           /\ C8_Example =>
                 /\ self.l2sim.val = <<<<<<0>>>>>>
                 /\ weight(1, 1) = One
                 /\ y = <<<<One, 0>>>>
                 /\ p = <<0>>

\* the first __call__ of the numeric example has run
C8_Witness ==
    /\ IsSet(self.protoNNOut)
    /\ C8_Example

====
